---------------------------- MODULE Spec2Model ----------------------------
(***************************************************************************)
(* Model of ruler_frequency/app.py: a Streamlit page that solves the       *)
(* cantilever characteristic equation 1 + cos(pL)cosh(pL) = 0 with scipy's *)
(* fsolve, derives the first natural frequency and draws the damped free   *)
(* vibration.                                                              *)
(*                                                                         *)
(* Numbers are fixed-point integers:                                       *)
(*   L, b            millimetres            h        0.1 mm                *)
(*   rho             kg/m^3                 E_GPa    0.1 GPa; E  1e7 Pa    *)
(*   duration        0.1 s                  amplitude  mm                  *)
(*   zeta            1/100                  p        0.01 1/m              *)
(*   I               1e-15 m^4              A        1e-7 m^2              *)
(*   f_n, omega      0.01 Hz, 0.01 rad/s    t        ms                    *)
(*   angles, p*L     1/1000 rad             cos, cosh  1/1000              *)
(* A displacement sample A0 * exp(-k) * c is kept as its factors           *)
(* [a, zero, k, c]: a = A0, k the decay exponent in 1/1000, c the cosine   *)
(* factor in 1/1000, zero = the product is 0.0 (exp underflowed).          *)
(***************************************************************************)
EXTENDS Integers, Sequences, FiniteSets

VARIABLES L, b, h, rho, E_GPa, duration, amplitude, zeta, ui, figs, style, probe

vars == <<L, b, h, rho, E_GPa, duration, amplitude, zeta, ui, figs, style, probe>>

widgets == <<L, b, h, rho, E_GPa, duration, amplitude, zeta>>

---------------------------------------------------------------------------
(* Bounds of the model *)

\* linspace(0, duration, 1000) is sampled at NumSamples points
NumSamples == 5

\* figures plt.subplots may leave registered
MaxFigures == 2

---------------------------------------------------------------------------
(* Program constants *)

MinL == 10
MinB == 1
MinH == 1
MinRho == 100
MinE == 1
MinDuration == 5
MaxDuration == 50
MinAmplitude == 1
MaxAmplitude == 10
MinZeta == 0
MaxZeta == 100

\* 1.875 in 1/1000
InitialGuessPL == 1875

\* np.pi in 1/1000
Pi == 3141
TwoPi == 6283
HalfPi == 1571

\* np.exp(-x) is 0.0 in IEEE double for x > 745.133
ExpUnderflow == 745133

\* values a user may try to enter into each widget
LValues == {0, 5, 100, 300, 1000}
BValues == {0, 12, 20}
HValues == {0, 10, 20}
RhoValues == {0, 1040, 2700}
EValues == {0, 1, 32}
DurationValues == {0, 5, 20, 50, 55}
AmplitudeValues == {0, 5, 10, 11}
ZetaValues == {-1, 0, 5, 99, 100, 101}

\* fsolve's status codes: 1 = converged, 2..5 = the MINPACK failure codes
IerCodes == {1, 2, 3, 4, 5}

\* p*L (in 1/1000) of the last iterate a non-converged solve stops at
LastIteratePL == {1850, 1875}

---------------------------------------------------------------------------
(* Arithmetic *)

Abs(x) == IF x < 0 THEN -x ELSE x

\* the integer r in lo .. hi-1 with r*r <= n < (r+1)*(r+1), by bisection
RECURSIVE SqrtBetween(_, _, _)
SqrtBetween(n, lo, hi) ==
    IF hi - lo <= 1
    THEN lo
    ELSE LET mid == (lo + hi) \div 2
         IN IF mid * mid <= n
            THEN SqrtBetween(n, mid, hi)
            ELSE SqrtBetween(n, lo, mid)

\* np.sqrt on a non-negative integer, rounded down
Sqrt(n) == SqrtBetween(n, 0, 46341)

\* cosine on [0, pi/2], argument and result in 1/1000
CosQ(y) ==
    LET y2 == (y * y) \div 1000
        y4 == (y2 * y2) \div 1000
        y6 == (y4 * y2) \div 1000
    IN 1000 - (y2 \div 2) + (y4 \div 24) - (y6 \div 720)

\* np.cos, argument and result in 1/1000
Cos(th) ==
    LET r == Abs(th) % TwoPi
        f == IF r > Pi THEN TwoPi - r ELSE r
    IN IF f > HalfPi THEN -CosQ(Pi - f) ELSE CosQ(f)

\* np.cosh for |x| <= 2, argument and result in 1/1000
Cosh(x) ==
    LET x2 == (x * x) \div 1000
        x4 == (x2 * x2) \div 1000
        x6 == (x4 * x2) \div 1000
        x8 == (x6 * x2) \div 1000
    IN 1000 + (x2 \div 2) + (x4 \div 24) + (x6 \div 720) + (x8 \div 40320)

---------------------------------------------------------------------------
(* Core functions *)

\* equation(p, l): 1 + cos(p*l) * cosh(p*l), in 1/1000
equation(p, l) ==
    LET x == (p * l) \div 100
    IN 1000 + ((Cos(x) * Cosh(x)) \div 1000)

\* a plausible slip: the mass and stiffness terms exchanged
calculate_first_frequency_swapped(p, len0, E, I, rho0, A) ==
    LET stiffness_mass_ratio == Sqrt((((rho0 * A * 100) \div (E * I)) * 10))
    IN (((p * p) \div 100) * stiffness_mass_ratio) \div 628

\* calculate_first_frequency: p^2 * sqrt(E*I / (rho*A)) / (2*pi), in 0.01 Hz
\* (E in 1e7 Pa, so E*I / (rho*A) is in 0.1 m^4/s^2)
calculate_first_frequency(p, len0, E, I, rho0, A) ==
    LET stiffness_mass_ratio == Sqrt((((E * I * 100) \div (rho0 * A)) * 10))
    IN (((p * p) \div 100) * stiffness_mass_ratio) \div 628

---------------------------------------------------------------------------
(* The solver: scipy.optimize.fsolve(equation, initial_guess, args=(L,),   *)
(* xtol=1e-12, maxfev=5000, full_output=True).  Its result is the          *)
(* library's: either it converges (ier = 1) to the root next to the seed,  *)
(* or it stops with a failure code at its last iterate.                    *)

\* p*L (in 1/1000) of the first three positive roots
Roots == {1875, 4694, 7855}

NearestRoot(x) ==
    CHOOSE r \in Roots : \A r2 \in Roots : Abs(r - x) <= Abs(r2 - x)

fsolve(x0, l) ==
    {[solution |-> (NearestRoot((x0 * l) \div 100) * 100) \div l, ier |-> 1]}
    \cup {[solution |-> (x * 100) \div l, ier |-> c] :
            x \in LastIteratePL, c \in IerCodes \ {1}}

---------------------------------------------------------------------------
(* Input widgets: st.number_input / st.slider refuse a value outside       *)
(* [min_value, max_value]                                                  *)

ValidL(v) == v >= MinL
ValidB(v) == v >= MinB
ValidH(v) == v >= MinH
ValidRho(v) == v >= MinRho
ValidE(v) == v >= MinE
ValidDuration(v) == v >= MinDuration /\ v <= MaxDuration

\* a plausible slip: the amplitude slider without its lower bound
ValidAmplitudeNoMin(v) == v <= MaxAmplitude

ValidAmplitude(v) == v >= MinAmplitude /\ v <= MaxAmplitude
ValidZeta(v) == v >= MinZeta /\ v <= MaxZeta

---------------------------------------------------------------------------
(* Damped vibration *)

\* t = np.linspace(0, duration, 1000): the i-th sample time, in ms
linspace(dur, i) == (dur * 100 * (i - 1)) \div (NumSamples - 1)

\* the value amplitude * exp(-k) * c as its factors; 0.0 once exp underflows
Sample(a, k, c) ==
    IF k > ExpUnderflow \/ c = 0
    THEN [a |-> a, zero |-> TRUE, k |-> 0, c |-> 0]
    ELSE [a |-> a, zero |-> FALSE, k |-> k, c |-> c]

\* zeta * omega_n * t, in 1/1000
DecayExponent(z, omega_n, t) == (((z * omega_n) \div 100) * t) \div 100

\* omega_d * t + phi, in 1/1000 rad
Phase(omega_d, t, phi) == ((omega_d * t) \div 100) + phi

\* a plausible slip: sqrt(1 - zeta) for sqrt(1 - zeta^2)
omega_d_unsquared(z, omega_n) ==
    IF z < 100 THEN (omega_n * Sqrt(10000 - (100 * z))) \div 100 ELSE 0

\* omega_d = omega_n * np.sqrt(1 - zeta ** 2) if zeta < 1 else 0
omega_d_of(z, omega_n) ==
    IF z < 100 THEN (omega_n * Sqrt(10000 - (z * z))) \div 100 ELSE 0

\* a plausible slip: the oscillating formula at omega_n in every regime
displacement_always_cos(a, z, omega_n, omega_d, phi, t) ==
    Sample(a, DecayExponent(z, omega_n, t), Cos(Phase(omega_n, t, phi)))

\* one sample of displacement, by damping regime
displacement_at(a, z, omega_n, omega_d, phi, t) ==
    IF z < 100
    THEN Sample(a, DecayExponent(z, omega_n, t), Cos(Phase(omega_d, t, phi)))
    ELSE Sample(a, DecayExponent(z, omega_n, t), 1000)

\* a plausible slip: the envelope drawn for the undamped case too
envelope_drawn_undamped(z) == z < 100

\* if zeta > 0 and zeta < 1
envelope_drawn(z) == z > 0 /\ z < 100

\* envelope = amplitude * np.exp(-zeta * omega_n * t), one sample
envelope_at(a, z, omega_n, t) == Sample(a, DecayExponent(z, omega_n, t), 1000)

---------------------------------------------------------------------------
(* The button handler: what one click computes and shows *)

Samples == 1 .. NumSamples

Result(o) ==
    LET E == E_GPa * 10
        I == (b * h * h * h) \div 12
        A == b * h
        p_value == o.solution
        error == Abs(equation(p_value, L))
        f_n == calculate_first_frequency(p_value, L, E, I, rho, A)
        omega_n == (f_n * 628) \div 100
        omega_d == omega_d_of(zeta, omega_n)
        phi == 0
        f_nn == (omega_d * 100) \div 628
        t == [i \in Samples |-> linspace(duration, i)]
    IN [ args |-> [L |-> L, b |-> b, h |-> h, rho |-> rho, E |-> E,
                   amplitude |-> amplitude, duration |-> duration,
                   zeta |-> zeta],
         banner |-> "success",
         p_value |-> p_value,
         error |-> error,
         ier |-> o.ier,
         status |-> IF o.ier = 1 THEN "ok" ELSE "failed",
         f_n |-> f_n,
         omega_n |-> omega_n,
         omega_d |-> omega_d,
         damped_info |-> IF zeta < 100 THEN <<f_nn>> ELSE <<>>,
         t |-> t,
         displacement |->
            [i \in Samples |->
                displacement_at(amplitude, zeta, omega_n, omega_d, phi, t[i])],
         plot_label |-> <<zeta, f_nn>>,
         plot_title |-> <<f_nn>>,
         envelope |->
            IF envelope_drawn(zeta)
            THEN [i \in Samples |-> envelope_at(amplitude, zeta, omega_n, t[i])]
            ELSE <<>> ]

Init ==
    /\ L = 300
    /\ b = 20
    /\ h = 20
    /\ rho = 1040
    /\ E_GPa = 32
    /\ duration = 20
    /\ amplitude = 5
    /\ zeta = 5
    /\ ui = <<>>
    /\ figs = 0
    /\ style = "default"
    /\ probe = <<>>

\* a widget change reruns the script with the button not pressed: the
\* results are not drawn again; pyplot's state stays as it is
Rerun == ui' = <<>> /\ UNCHANGED <<figs, style, probe>>

SetL ==
    \E v \in LValues :
        /\ ValidL(v) /\ v # L
        /\ L' = v
        /\ Rerun
        /\ UNCHANGED <<b, h, rho, E_GPa, duration, amplitude, zeta>>

SetB ==
    \E v \in BValues :
        /\ ValidB(v) /\ v # b
        /\ b' = v
        /\ Rerun
        /\ UNCHANGED <<L, h, rho, E_GPa, duration, amplitude, zeta>>

SetH ==
    \E v \in HValues :
        /\ ValidH(v) /\ v # h
        /\ h' = v
        /\ Rerun
        /\ UNCHANGED <<L, b, rho, E_GPa, duration, amplitude, zeta>>

SetRho ==
    \E v \in RhoValues :
        /\ ValidRho(v) /\ v # rho
        /\ rho' = v
        /\ Rerun
        /\ UNCHANGED <<L, b, h, E_GPa, duration, amplitude, zeta>>

SetE ==
    \E v \in EValues :
        /\ ValidE(v) /\ v # E_GPa
        /\ E_GPa' = v
        /\ Rerun
        /\ UNCHANGED <<L, b, h, rho, duration, amplitude, zeta>>

SetDuration ==
    \E v \in DurationValues :
        /\ ValidDuration(v) /\ v # duration
        /\ duration' = v
        /\ Rerun
        /\ UNCHANGED <<L, b, h, rho, E_GPa, amplitude, zeta>>

SetAmplitude ==
    \E v \in AmplitudeValues :
        /\ ValidAmplitude(v) /\ v # amplitude
        /\ amplitude' = v
        /\ Rerun
        /\ UNCHANGED <<L, b, h, rho, E_GPa, duration, zeta>>

SetZeta ==
    \E v \in ZetaValues :
        /\ ValidZeta(v) /\ v # zeta
        /\ zeta' = v
        /\ Rerun
        /\ UNCHANGED <<L, b, h, rho, E_GPa, duration, amplitude>>

\* if st.button(...): solve, derive, show, plot
Compute ==
    /\ figs < MaxFigures
    /\ \E o \in fsolve((InitialGuessPL * 100) \div L, L) :
          ui' = <<Result(o)>>
    /\ style' = "seaborn-v0_8-whitegrid"
    /\ figs' = figs + 1
    /\ UNCHANGED <<widgets, probe>>

Next ==
    \/ SetL
    \/ SetB
    \/ SetH
    \/ SetRho
    \/ SetE
    \/ SetDuration
    \/ SetAmplitude
    \/ SetZeta
    \/ Compute

Spec == Init /\ [][Next]_vars

---------------------------------------------------------------------------
(* calculate_first_frequency on its own: two calls on arguments drawn from *)
(* bounded sets, the second differing from the first in one argument       *)

ProbeP == {187, 625, 1875}
ProbeE == {10, 320, 1000}
ProbeI == {1000, 13333}
ProbeRho == {100, 1040, 2700}
ProbeA == {120, 400}

ProbeArgs == [p : ProbeP, E : ProbeE, I : ProbeI, rho : ProbeRho, A : ProbeA]

Frequency(x) == calculate_first_frequency(x.p, L, x.E, x.I, x.rho, x.A)

\* x with one argument changed, the others fixed
OneChanged(x) ==
    {[x EXCEPT !.p = v] : v \in ProbeP}
    \cup {[x EXCEPT !.E = v] : v \in ProbeE}
    \cup {[x EXCEPT !.I = v] : v \in ProbeI}
    \cup {[x EXCEPT !.rho = v] : v \in ProbeRho}
    \cup {[x EXCEPT !.A = v] : v \in ProbeA}

ProbeFrequency ==
    /\ \E x \in ProbeArgs : \E y \in OneChanged(x) :
          probe' = <<[x |-> x, y |-> y,
                      fx |-> Frequency(x), fy |-> Frequency(y)]>>
    /\ UNCHANGED <<widgets, ui, figs, style>>

SpecFreq == Init /\ [][ProbeFrequency]_vars

---------------------------------------------------------------------------
(* Properties *)

Shown == ui # <<>>

R == ui[1]

\* |s| <= |e| for two samples, from their factors
MagLeq(s, e) ==
    \/ s.zero
    \/ /\ ~e.zero
       /\ s.a <= e.a
       /\ s.k >= e.k
       /\ Abs(s.c) <= Abs(e.c)

\* |s| < |e| for two samples, from their factors
MagLess(s, e) ==
    /\ ~e.zero
    /\ \/ s.zero
       \/ /\ s.a <= e.a
          /\ Abs(s.c) <= Abs(e.c)
          /\ s.k > e.k

\* C1: when the solve does not converge (ier # 1) the result is shown as a
\* failure, never under the success banner, and the last iterate p is shown.
C1_NonConvergenceIsFailure ==
    (Shown /\ R.ier # 1) =>
        /\ R.banner # "success"
        /\ R.status = "failed"
        /\ R.p_value \in Int

\* C3: every computation that reached the solver and the frequency formula
\* had L, b, h, rho, E, amplitude, duration strictly positive and zeta in
\* [0, 1].
C3_InputsValid ==
    Shown =>
        /\ R.args.L > 0 /\ R.args.b > 0 /\ R.args.h > 0
        /\ R.args.rho > 0 /\ R.args.E > 0
        /\ R.args.amplitude > 0 /\ R.args.duration > 0
        /\ R.args.zeta >= 0 /\ R.args.zeta <= 100

C3_Witness ==
    /\ Shown
    /\ R.args.L = 100 /\ R.args.amplitude = 10 /\ R.args.zeta = 100
    /\ R.args.E = 10

\* C4: with zeta >= 1 no output of the invocation (info box, plot legend,
\* plot title) reports the damped frequency.
C4_NoDampedFrequencyAtCritical ==
    (Shown /\ R.args.zeta >= 100) =>
        /\ R.damped_info = <<>>
        /\ R.plot_label = <<>>
        /\ R.plot_title = <<>>

\* C5: for zeta < 1, omega_d = omega_n * sqrt(1 - zeta^2) and every sample is
\* A0 * exp(-zeta*omega_n*t) * cos(omega_d*t + phi); for zeta >= 1 every
\* sample is A0 * exp(-zeta*omega_n*t) with no cosine factor; one regime
\* decides both.
C5_TraceByRegime ==
    Shown =>
        LET z == R.args.zeta
            a == R.args.amplitude
            wd == (R.omega_n * Sqrt(10000 - (z * z))) \div 100
            decay(i) == (((z * R.omega_n) \div 100) * R.t[i]) \div 100
        IN /\ DOMAIN R.displacement = 1 .. NumSamples
           /\ z < 100 =>
                /\ R.omega_d = wd
                /\ \A i \in 1 .. NumSamples :
                      R.displacement[i]
                        = Sample(a, decay(i), Cos((wd * R.t[i]) \div 100))
           /\ z >= 100 =>
                /\ R.omega_d = 0
                /\ \A i \in 1 .. NumSamples :
                      R.displacement[i] = Sample(a, decay(i), 1000)

C5_Witness ==
    /\ Shown
    /\ R.args.zeta > 0 /\ R.args.zeta < 100
    /\ R.omega_d > 0 /\ R.omega_d < R.omega_n
    /\ \E i \in 1 .. NumSamples : R.displacement[i].c < 0

\* C6: for 0 < zeta < 1 the envelope is produced over the same samples as the
\* trace and bounds it at every sample; for zeta = 0 and zeta >= 1 there is
\* no envelope.
C6_EnvelopeBoundsTrace ==
    Shown =>
        LET z == R.args.zeta
        IN /\ (z > 0 /\ z < 100) =>
                /\ DOMAIN R.envelope = DOMAIN R.t
                /\ DOMAIN R.displacement = DOMAIN R.t
                /\ \A i \in DOMAIN R.t :
                      /\ R.envelope[i].c = 1000 \/ R.envelope[i].zero
                      /\ MagLeq(R.displacement[i], R.envelope[i])
           /\ (z = 0 \/ z >= 100) => R.envelope = <<>>

C6_Witness ==
    /\ Shown
    /\ R.args.zeta = 5
    /\ R.envelope # <<>>
    /\ \E i \in DOMAIN R.t :
          R.displacement[i].c < 0 /\ ~R.envelope[i].zero

\* C7 as stated: with zeta >= 1 the magnitude of the displacement strictly
\* decreases from each sample to the next, with no sign change.
C7_StrictlyDecreasing ==
    (Shown /\ R.args.zeta >= 100) =>
        \A i \in 1 .. (NumSamples - 1) :
            /\ R.displacement[i].c >= 0
            /\ R.displacement[i + 1].c >= 0
            /\ MagLess(R.displacement[i + 1], R.displacement[i])

\* C7 amended: with zeta >= 1 the displacement never changes sign and its
\* magnitude never increases from one sample to the next.
C7_NonIncreasing ==
    (Shown /\ R.args.zeta >= 100) =>
        \A i \in 1 .. (NumSamples - 1) :
            /\ R.displacement[i].c >= 0
            /\ R.displacement[i + 1].c >= 0
            /\ MagLeq(R.displacement[i + 1], R.displacement[i])

C7_Witness ==
    /\ Shown
    /\ R.args.zeta = 100
    /\ ~R.displacement[1].zero
    /\ MagLess(R.displacement[2], R.displacement[1])
    /\ R.displacement[NumSamples - 1].zero
    /\ R.displacement[NumSamples].zero

\* C9: calculate_first_frequency does not decrease when E or p grows, does
\* not increase when rho or A grows (the other arguments fixed), and is
\* never negative.
C9_FrequencyMonotone ==
    probe # <<>> =>
        LET x == probe[1].x
            y == probe[1].y
            fx == probe[1].fx
            fy == probe[1].fy
        IN /\ fx >= 0
           /\ ([x EXCEPT !.E = y.E] = y /\ x.E <= y.E) => fx <= fy
           /\ ([x EXCEPT !.p = y.p] = y /\ x.p <= y.p) => fx <= fy
           /\ ([x EXCEPT !.rho = y.rho] = y /\ x.rho <= y.rho) => fx >= fy
           /\ ([x EXCEPT !.A = y.A] = y /\ x.A <= y.A) => fx >= fy

C9_Witness ==
    /\ probe # <<>>
    /\ [probe[1].x EXCEPT !.E = probe[1].y.E] = probe[1].y
    /\ probe[1].x.E < probe[1].y.E
    /\ probe[1].fx < probe[1].fy

\* C10: an invocation leaves no process-global state behind for the next
\* one: pyplot's figure registry and style are as before the first click.
C10_NoStateRetained == figs = 0 /\ style = "default"

====
